---- MODULE Spec2Model ----
(***************************************************************************)
(* A model of the ws workspace tool: manifest parsing and the dependency   *)
(* closure (src/wst/conf.py), the workspace state store (config file and   *)
(* per-project checksum files, src/wst/conf.py) and the clean sub-command  *)
(* (src/wst/cmd/clean.py).                                                 *)
(***************************************************************************)
EXTENDS Naturals, Integers, Sequences, FiniteSets, TLC

VARIABLES
    man,        \* the manifest as yaml.load returns it (input of parse_manifest)
    d,          \* the manifest dictionary parse_manifest works on and returns
    projects,   \* a list of project names (closure roots / args.projects)
    result,     \* what dependency_closure returned: [order, raised]
    raised,     \* the WSError / OSError that ended the current call, or NoError
    force,      \* args.force
    dryRun,     \* wst.dry_run()
    fs,         \* the files of the workspace
    pc,         \* where the running command is
    todo,       \* handler: the projects still to clean
    cur,        \* the project / config the running call works on
    pre,        \* the files as the running call (clean, update_config) found them
    start,      \* the files as the running command found them
    env,        \* a process environment (the build_env of get_build_env)
    last        \* what the calls completed so far have stored, call by call

vars == <<man, d, projects, result, raised, force, dryRun, fs, pc, todo, cur, pre, start,
          env, last>>

----------------------------------------------------------------------------
(* Bounds of the model. *)

\* longest 'deps' list of a manifest entry
MaxDeps == 2
\* longest list of closure roots
MaxRoots == 2
\* longest list of projects given to the clean command
MaxArgs == 1
\* number of digits of a checksum
DigestLen == 2
\* longest value of an environment variable, in characters
MaxEnvLen == 4
\* longest list of entries merged into a variable by one call
MaxVals == 2

\* The project names, in the order the manifest dictionary iterates them.
Names == <<"A", "B", "C">>

Range(s) == {s[i] : i \in 1..Len(s)}
NameSet == Range(Names)

SeqsUpTo(S, n) == UNION {[1..k -> S] : k \in 0..n}

----------------------------------------------------------------------------
(* Errors. *)

Err(kind, proj, arg) == [kind |-> kind, proj |-> proj, arg |-> arg]
NoError == Err("none", "", "")

\* The kinds raised while the manifest is parsed.
ManifestErrors == {"missing_key", "unknown_key", "env_not_dict",
                   "unknown_dep", "duplicate_dep"}

----------------------------------------------------------------------------
(* parse_manifest *)

required == {"build"}
optional == {"deps", "env"}
total == required \cup optional

\* A raw manifest entry: the keys present, and the values of build, deps, env.
\* deps is a single string or a list; env is a dictionary or something else.
RawDeps == [kind : {"str"}, name : NameSet]
             \cup [kind : {"list"}, val : SeqsUpTo(NameSet, MaxDeps)]

WellFormedProps ==
    [keys : {{"build", "deps"}}, build : {"cmake"}, deps : RawDeps, env : {"dict"}]

OddProps ==
    [keys : {{"deps"}, {"build", "colour"}, {"build", "env"}},
     build : {"cmake"}, deps : {[kind |-> "list", val |-> <<>>]}, env : {"notdict"}]
      \cup [keys : {{"build"}}, build : {"bogus"},
            deps : {[kind |-> "list", val |-> <<>>]}, env : {"dict"}]

RawProps == WellFormedProps \cup OddProps

Manifests == UNION {[K -> RawProps] : K \in SUBSET NameSet}

\* d.items(): the entries in dictionary order.
Keys(m) == SelectSeq(Names, LAMBDA n : n \in DOMAIN m)

\* conf.py 67-76: the first key error of one entry.
ValidateProps(proj, props) ==
    IF \E prop \in required : prop \notin props.keys
    THEN Err("missing_key", proj, CHOOSE prop \in required : prop \notin props.keys)
    ELSE IF \E prop \in props.keys : prop \notin total
    THEN Err("unknown_key", proj, CHOOSE prop \in props.keys : prop \notin total)
    ELSE NoError

\* conf.py 81-87: deps as a tuple; a single string becomes a tuple of one.
DepsTuple(props) ==
    IF "deps" \in props.keys
    THEN IF props.deps.kind = "str" THEN <<props.deps.name>> ELSE props.deps.val
    ELSE <<>>

\* conf.py 80-97: the computed keys of one entry.
ComputedProps(proj, props) ==
    [build      |-> props.build,
     deps       |-> DepsTuple(props),
     env        |-> "dict",
     path       |-> proj,
     downstream |-> <<>>]

EnvError(proj, props) ==
    IF "env" \in props.keys /\ props.env # "dict"
    THEN Err("env_not_dict", proj, "env")
    ELSE NoError

\* conf.py 67-76: the validation loop, from the i-th entry on.
RECURSIVE ValidateLoop(_, _, _)
ValidateLoop(m, keys, i) ==
    IF i > Len(keys) THEN NoError
    ELSE IF ValidateProps(keys[i], m[keys[i]]) # NoError
    THEN ValidateProps(keys[i], m[keys[i]])
    ELSE ValidateLoop(m, keys, i + 1)

\* conf.py 80-97: the loop adding the computed keys, from the i-th entry on.
RECURSIVE ComputeLoop(_, _, _)
ComputeLoop(m, keys, i) ==
    IF i > Len(keys) THEN NoError
    ELSE IF EnvError(keys[i], m[keys[i]]) # NoError
    THEN EnvError(keys[i], m[keys[i]])
    ELSE ComputeLoop(m, keys, i + 1)

\* conf.py 102-108: the loop over the deps of one project.
RECURSIVE DepLoop(_, _, _)
DepLoopMutant(st, proj, j) ==
    IF j > Len(st.d[proj].deps) THEN st
    ELSE LET dep == st.d[proj].deps[j] IN
         IF dep \notin DOMAIN st.d
         THEN [st EXCEPT !.raised = Err("unknown_dep", proj, dep)]
         ELSE DepLoop([st EXCEPT !.d[proj].downstream = Append(@, dep)],
                      proj, j + 1)

DepLoop(st, proj, j) ==
    IF j > Len(st.d[proj].deps) THEN st
    ELSE LET dep == st.d[proj].deps[j] IN
         IF dep \notin DOMAIN st.d
         THEN [st EXCEPT !.raised = Err("unknown_dep", proj, dep)]
         ELSE DepLoop([st EXCEPT !.d[dep].downstream = Append(@, proj)],
                      proj, j + 1)

\* conf.py 110-111: the duplicate check that follows the loop over the deps.
DuplicateCheckMutant(st, proj) == st

DuplicateCheck(st, proj) ==
    IF Cardinality(Range(st.d[proj].deps)) # Len(st.d[proj].deps)
    THEN [st EXCEPT !.raised = Err("duplicate_dep", proj, "")]
    ELSE st

\* conf.py 100-111: the loop over the projects.
RECURSIVE ReverseDeps(_, _, _)
ReverseDeps(st, keys, i) ==
    IF i > Len(keys) THEN st
    ELSE LET st1 == DepLoop(st, keys[i], 1) IN
         IF st1.raised # NoError THEN st1
         ELSE LET st2 == DuplicateCheck(st1, keys[i]) IN
              IF st2.raised # NoError THEN st2
              ELSE ReverseDeps(st2, keys, i + 1)

\* parse_manifest: the dictionary as the call leaves it, and the error raised.
\* On an error the caller gets no dictionary; d is then what had been built.
parse_manifest(m) ==
    LET keys == Keys(m)
        e1   == ValidateLoop(m, keys, 1)
        e2   == ComputeLoop(m, keys, 1)
        d2   == [p \in DOMAIN m |-> ComputedProps(p, m[p])]
    IN  IF e1 # NoError THEN [d |-> <<>>, raised |-> e1]
        ELSE IF e2 # NoError THEN [d |-> <<>>, raised |-> e2]
        ELSE ReverseDeps([d |-> d2, raised |-> NoError], keys, 1)

----------------------------------------------------------------------------
(* dependency_closure *)

\* conf.py 124-132, process(project); st = [order, processed, raised].
RECURSIVE process(_, _, _)
RECURSIVE ProcessDeps(_, _, _, _)

\* A traversal that only remembers what it has visited.
ProcessDepsMutant(g, st, project, i) ==
    IF st.raised # NoError \/ i > Len(g[project].deps) THEN st
    ELSE LET dep == g[project].deps[i] IN
         IF dep \in Range(st.order) \/ dep \in st.processed
         THEN ProcessDeps(g, st, project, i + 1)
         ELSE ProcessDeps(g, process(g, st, dep), project, i + 1)

\* conf.py 126-131: the loop over the deps of project, from the i-th on.
ProcessDeps(g, st, project, i) ==
    IF st.raised # NoError \/ i > Len(g[project].deps) THEN st
    ELSE LET dep == g[project].deps[i] IN
         IF dep \in Range(st.order)
         THEN ProcessDeps(g, st, project, i + 1)
         ELSE IF dep \in st.processed
         THEN [st EXCEPT !.raised = Err("cycle", project, dep)]
         ELSE ProcessDeps(g, process(g, st, dep), project, i + 1)

\* A traversal that emits a project before its dependencies.
processMutant(g, st, project) ==
    ProcessDeps(g, [st EXCEPT !.processed = @ \cup {project},
                              !.order = Append(@, project)], project, 1)

process(g, st, project) ==
    LET st1 == ProcessDeps(g, [st EXCEPT !.processed = @ \cup {project}], project, 1)
    IN  IF st1.raised # NoError THEN st1
        ELSE [st1 EXCEPT !.order = Append(@, project)]

\* conf.py 134-136: the loop over the roots.
RECURSIVE ClosureLoop(_, _, _, _)
ClosureLoop(g, st, roots, i) ==
    IF st.raised # NoError \/ i > Len(roots) THEN st
    ELSE IF roots[i] \notin st.processed
    THEN ClosureLoop(g, process(g, st, roots[i]), roots, i + 1)
    ELSE ClosureLoop(g, st, roots, i + 1)

\* dependency_closure(d, projects): the tuple returned, or the error raised.
dependency_closure(g, roots) ==
    LET st == ClosureLoop(g, [order |-> <<>>, processed |-> {}, raised |-> NoError],
                          roots, 1)
    IN  [order |-> IF st.raised = NoError THEN st.order ELSE <<>>,
         raised |-> st.raised]

----------------------------------------------------------------------------
(* The files of a workspace.                                                 *)
(*   checksum[p]  the text of the checksum file of p, or NoFile              *)
(*   build[p]     the build directory of p: "absent", "built" (it holds the  *)
(*                build's artifacts) or "cleaned" (the backend cleaned it)   *)
(*   config       the text of config.yaml                                    *)
(*   tmp          the text of config.yaml.tmp, or NoFile                     *)
(* A text is a sequence of tokens.                                           *)

NoFile == <<"ENOENT">>
NoResult == [order |-> <<>>, raised |-> NoError]

BUILD_TYPES == {"debug", "release"}
BUILD_TOOLS == {"meson", "cmake", "setuptools"}

\* The workspace config dictionaries.
Configs == [taint : BOOLEAN, type : BUILD_TYPES]

\* The checksums a build stores: hex digests, here of two digits.
Checksums == {<<"a", "1">>, <<"b", "2">>}

\* set_stored_checksum's '%s\n' % checksum
ChecksumText(checksum) == checksum \o <<"\n">>

\* yaml.dump(config, default_flow_style=False): one "key: value" line per key,
\* the keys sorted; a line is two tokens, the key and the value.
BoolText(b) == IF b THEN "true" ELSE "false"
yaml_dump(config) == <<"taint", BoolText(config.taint), "type", config.type>>

\* yaml.load: the value that follows the key.
YamlValue(text, key) == text[1 + CHOOSE i \in 1..Len(text) : i % 2 = 1 /\ text[i] = key]
yaml_load(text) == [taint |-> YamlValue(text, "taint") = "true",
                    type  |-> YamlValue(text, "type")]

\* A text that is the complete dump of some config.
CompleteConfig(text) == \E c \in Configs : text = yaml_dump(c)

Prefix(text, n) == SubSeq(text, 1, n)
IsPrefix(s, t) == Len(s) <= Len(t) /\ SubSeq(t, 1, Len(s)) = s

get_ws_config_path == "config"

\* conf.py 183: '%s.tmp' % config_path
tmpfileMutant == get_ws_config_path

tmpfile == "tmp"

\* conf.py 170-175
get_ws_config(f) == yaml_load(f[get_ws_config_path])

\* conf.py 184: open(tmpfile, 'w') creates or truncates the file.
\* An open in append mode, which keeps what the file holds.
OpenTmpMutant(f) == IF f[tmpfile] = NoFile THEN [f EXCEPT ![tmpfile] = <<>>] ELSE f

OpenTmp(f) == [f EXCEPT ![tmpfile] = <<>>]

\* conf.py 185-187: text goes to the end of what the file holds.
WriteTmp(f, text) == [f EXCEPT ![tmpfile] = @ \o text]

\* conf.py 188: os.rename(tmpfile, config_path); renaming a file onto itself
\* does nothing.
RenameTmp(f) ==
    IF tmpfile = get_ws_config_path THEN f
    ELSE [f EXCEPT ![get_ws_config_path] = f[tmpfile], ![tmpfile] = NoFile]

\* conf.py 178-188, a call that runs to its end.
update_config(f, config) ==
    RenameTmp(WriteTmp(OpenTmp(f), yaml_dump(config)))

\* conf.py 283: open(checksum_file, 'w') creates or truncates the file.
\* An open in append mode, which keeps what the file holds.
OpenChecksumMutant(f, proj) ==
    IF f.checksum[proj] = NoFile THEN [f EXCEPT !.checksum[proj] = <<>>] ELSE f

OpenChecksum(f, proj) == [f EXCEPT !.checksum[proj] = <<>>]

\* conf.py 284: f.write; text goes to the end of what the file holds.
WriteChecksum(f, proj, text) == [f EXCEPT !.checksum[proj] = @ \o text]

\* conf.py 271-284 (no dry-run test), a call that runs to its end.
set_stored_checksum(f, dry, proj, checksum) ==
    WriteChecksum(OpenChecksum(f, proj), proj, ChecksumText(checksum))

\* str.rstrip(): the text without its trailing whitespace.
Whitespace == {"\n", " "}

RECURSIVE rstrip(_)
rstrip(text) ==
    IF Len(text) > 0 /\ text[Len(text)] \in Whitespace
    THEN rstrip(SubSeq(text, 1, Len(text) - 1))
    ELSE text

\* What get_stored_checksum returns for a project without a checksum file.
None == <<"None">>

\* conf.py 301-319
\* A read that returns the text of the file as it is.
get_stored_checksumMutant(f, dry, proj) ==
    IF dry THEN <<"bogus-stored-checksum">>
    ELSE IF f.checksum[proj] = NoFile THEN None
    ELSE f.checksum[proj]

get_stored_checksum(f, dry, proj) ==
    IF dry THEN <<"bogus-stored-checksum">>
    ELSE IF f.checksum[proj] = NoFile THEN None
    ELSE rstrip(f.checksum[proj])

\* conf.py 322-371: the values calculate_checksum returns, the hex digests of
\* a hash (here of DigestLen digits) and, under dry-run, a placeholder.
HexDigits == {"a", "b"}
HexDigests == [1..DigestLen -> HexDigits]
calculate_checksum(dry) ==
    IF dry THEN {<<"bogus-calculated-checksum">>} ELSE HexDigests

\* The errno of an os.remove / shutil.rmtree that fails for another reason than
\* a missing file.
Faults == {"ok", "EACCES"}

\* conf.py 287-298; fault is what the file system answers to os.remove.
\* An invalidation that removes nothing.
invalidate_checksumMutant(f, dry, proj, fault) == [fs |-> f, raised |-> NoError]

\* An invalidation that swallows every error of the deletion.
invalidate_checksumLenient(f, dry, proj, fault) ==
    IF dry THEN [fs |-> f, raised |-> NoError]
    ELSE IF f.checksum[proj] = NoFile \/ fault # "ok" THEN [fs |-> f, raised |-> NoError]
    ELSE [fs |-> [f EXCEPT !.checksum[proj] = NoFile], raised |-> NoError]

\* An invalidation that lets the error of a missing file through.
invalidate_checksumStrict(f, dry, proj, fault) ==
    IF dry THEN [fs |-> f, raised |-> NoError]
    ELSE IF f.checksum[proj] = NoFile
    THEN [fs |-> f, raised |-> Err("OSError", proj, "ENOENT")]
    ELSE IF fault # "ok" THEN [fs |-> f, raised |-> Err("OSError", proj, fault)]
    ELSE [fs |-> [f EXCEPT !.checksum[proj] = NoFile], raised |-> NoError]

invalidate_checksum(f, dry, proj, fault) ==
    IF dry THEN [fs |-> f, raised |-> NoError]
    ELSE IF f.checksum[proj] = NoFile THEN [fs |-> f, raised |-> NoError]
    ELSE IF fault # "ok" THEN [fs |-> f, raised |-> Err("OSError", proj, fault)]
    ELSE [fs |-> [f EXCEPT !.checksum[proj] = NoFile], raised |-> NoError]

\* clean.py 67-73: shutil.rmtree(build_dir), ENOENT swallowed.
\* A removal that lets the error of a missing tree through.
rmtreeStrict(f, proj, fault) ==
    IF f.build[proj] = "absent" THEN [fs |-> f, raised |-> Err("OSError", proj, "ENOENT")]
    ELSE IF fault # "ok" THEN [fs |-> f, raised |-> Err("OSError", proj, fault)]
    ELSE [fs |-> [f EXCEPT !.build[proj] = "absent"], raised |-> NoError]

rmtree(f, proj, fault) ==
    IF f.build[proj] = "absent" THEN [fs |-> f, raised |-> NoError]
    ELSE IF fault # "ok" THEN [fs |-> f, raised |-> Err("OSError", proj, fault)]
    ELSE [fs |-> [f EXCEPT !.build[proj] = "absent"], raised |-> NoError]

\* clean.py 75-77
\* A reset that writes a fresh config instead of the one it read.
ResetTaintMutant(f) ==
    update_config(f, [taint |-> FALSE, type |-> "debug"])

\* A reset that writes the config back as it read it.
ResetTaintSkipped(f) ==
    update_config(f, get_ws_config(f))

ResetTaint(f) ==
    update_config(f, [get_ws_config(f) EXCEPT !.taint = FALSE])

\* clean.py 60-77
force_clean(f, dry, proj, fault) ==
    IF dry THEN [fs |-> f, raised |-> NoError]
    ELSE LET r == rmtree(f, proj, fault) IN
         IF r.raised # NoError THEN r
         ELSE [fs |-> ResetTaint(r.fs), raised |-> NoError]

\* conf.py 396-406
get_build_props(project, g) ==
    IF g[project].build \in BUILD_TOOLS THEN NoError
    ELSE Err("unknown_build", project, g[project].build)

\* conf.py 422-453: the error get_build_env ends with, if any.
get_build_env(proj, g) == dependency_closure(g, <<proj>>).raised

\* The value of an environment variable is a string, a sequence of characters;
\* a variable the environment does not hold (KeyError) has the value Unset.
EnvChars == {"a", ":"}
Unset == <<"KeyError">>
VarNames == {"PKG_CONFIG_PATH", "LD_LIBRARY_PATH"}

\* str.split(':'): the substrings between the colons; one entry, the empty
\* string, for the empty string.
RECURSIVE split(_)
split(s) ==
    IF \A i \in 1..Len(s) : s[i] # ":" THEN <<s>>
    ELSE LET i == CHOOSE i \in 1..Len(s) : s[i] = ":" /\ \A j \in 1..(i - 1) : s[j] # ":"
         IN  <<SubSeq(s, 1, i - 1)>> \o split(SubSeq(s, i + 1, Len(s)))

\* ':'.join(entries)
RECURSIVE join(_)
join(entries) ==
    IF Len(entries) = 0 THEN <<>>
    ELSE IF Len(entries) = 1 THEN entries[1]
    ELSE entries[1] \o <<":">> \o join(Tail(entries))

\* conf.py 409-419
\* A merge that puts the new entries first.
merge_varMutant(e, var, val) ==
    LET entries == IF e[var] = Unset THEN val ELSE val \o split(e[var])
    IN  [e EXCEPT ![var] = join(entries)]

merge_var(e, var, val) ==
    LET entries == IF e[var] = Unset THEN val ELSE split(e[var]) \o val
    IN  [e EXCEPT ![var] = join(entries)]

\* build_props['clean'](proj, build_dir, build_env): the backend's native clean.
\* It empties the build directory of the build's artifacts, or fails; under
\* dry-run it runs nothing.
BackendClean(f, dry, proj, fault) ==
    IF dry THEN [fs |-> f, raised |-> NoError]
    ELSE IF fault # "ok" THEN [fs |-> f, raised |-> Err("backend", proj, fault)]
    ELSE [fs |-> [f EXCEPT !.build[proj] = "cleaned"], raised |-> NoError]

\* clean.py 80-89
polite_clean(f, dry, proj, g, fault) ==
    IF get_build_props(proj, g) # NoError
    THEN [fs |-> f, raised |-> get_build_props(proj, g)]
    ELSE IF f.build[proj] = "absent" THEN [fs |-> f, raised |-> NoError]
    ELSE IF get_build_env(proj, g) # NoError
    THEN [fs |-> f, raised |-> get_build_env(proj, g)]
    ELSE BackendClean(f, dry, proj, fault)

\* clean.py 92-99; fault1 answers os.remove, fault2 the removal of the tree or
\* the backend.
clean(f, dry, proj, frc, g, fault1, fault2) ==
    LET r == invalidate_checksum(f, dry, proj, fault1) IN
    IF r.raised # NoError THEN r
    ELSE IF frc THEN force_clean(r.fs, dry, proj, fault2)
    ELSE polite_clean(r.fs, dry, proj, g, fault2)

\* A workspace in which nothing has been built or configured.
NoFiles == [checksum |-> [p \in NameSet |-> NoFile],
            build    |-> [p \in NameSet |-> "absent"],
            config   |-> NoFile,
            tmp      |-> NoFile]

----------------------------------------------------------------------------
(* Reachability along 'deps' edges, by iteration to the fixed point. *)

Declared(g, p) == IF p \in DOMAIN g THEN Range(g[p].deps) ELSE {}

RECURSIVE ReachFrom(_, _)
ReachFrom(g, S) ==
    LET T == S \cup UNION {Declared(g, p) : p \in S}
    IN  IF T = S THEN S ELSE ReachFrom(g, T)

\* q is reachable from p along at least one edge
Reaches(g, p, q) == q \in ReachFrom(g, Declared(g, p))
Acyclic(g) == \A p \in DOMAIN g : ~Reaches(g, p, p)
CycleReachable(g, roots) == \E p \in ReachFrom(g, Range(roots)) : Reaches(g, p, p)

----------------------------------------------------------------------------
(* SpecParse: parse_manifest applied to every manifest of the bounded set. *)

InitParse ==
    /\ man \in Manifests
    /\ d = <<>>
    /\ projects = <<>>
    /\ result = NoResult
    /\ raised = NoError
    /\ force = FALSE
    /\ dryRun = FALSE
    /\ fs = NoFiles
    /\ pc = "start"
    /\ todo = <<>>
    /\ cur = ""
    /\ pre = NoFiles
    /\ start = NoFiles
    /\ env = <<>>
    /\ last = <<>>

ParseManifest ==
    /\ pc = "start"
    /\ \E r \in {parse_manifest(man)} :
        /\ d' = r.d
        /\ raised' = r.raised
        /\ pc' = IF r.raised = NoError THEN "returned" ELSE "raised"
    /\ UNCHANGED <<man, projects, result, force, dryRun, fs, todo, cur, pre, start,
                   env, last>>

NextParse == ParseManifest

SpecParse == InitParse /\ [][NextParse]_vars

\* The deps a manifest entry declares, as the manifest file states them.
DeclaredDeps(m, q) ==
    IF "deps" \notin m[q].keys THEN <<>>
    ELSE IF m[q].deps.kind = "list" THEN m[q].deps.val
    ELSE [i \in 1..1 |-> m[q].deps.name]

Count(s, x) == Cardinality({i \in 1..Len(s) : s[i] = x})

\* C9: in every manifest parse_manifest accepts, the downstream list of every
\* project p holds exactly the projects q whose deps include p, each once, and
\* nothing else.
C9_DownstreamIsInverse ==
    pc = "returned" =>
        \A p \in DOMAIN d :
            /\ Range(d[p].downstream) \subseteq DOMAIN man
            /\ \A q \in DOMAIN man :
                   Count(d[p].downstream, q)
                     = (IF p \in Range(DeclaredDeps(man, q)) THEN 1 ELSE 0)

\* An accepted manifest in which one project has two dependents and depends on
\* a third project itself.
C9_Witness ==
    /\ pc = "returned"
    /\ \E p \in DOMAIN d : Len(d[p].downstream) = 2 /\ Len(d[p].deps) = 1

DepsValid(m) ==
    \A q \in DOMAIN m :
        /\ Range(DeclaredDeps(m, q)) \subseteq DOMAIN m
        /\ \A x \in Range(DeclaredDeps(m, q)) : Count(DeclaredDeps(m, q), x) = 1

\* C10: parse_manifest returns a graph only if every declared dependency names
\* a project key of the manifest and no deps list holds a name twice; otherwise
\* it ends with an error.
C10_InvalidDepsRejected ==
    pc # "start" =>
        /\ pc = "returned" => DepsValid(man)
        /\ ~DepsValid(man) => pc = "raised" /\ raised.kind \in ManifestErrors

\* A manifest rejected for a duplicate dependency, all of whose dependencies exist.
C10_Witness ==
    /\ pc = "raised"
    /\ raised.kind = "duplicate_dep"
    /\ \A q \in DOMAIN man : Range(DeclaredDeps(man, q)) \subseteq DOMAIN man

\* C18: the existence check and the duplicate check of every project's deps
\* are over before the first entry is appended to a downstream list: when
\* parse_manifest raises, no downstream list of the dictionary it was working
\* on holds an entry.
C18_ChecksBeforeReverseIndex ==
    pc = "raised" => \A p \in DOMAIN d : d[p].downstream = <<>>

----------------------------------------------------------------------------
(* SpecClosure: dependency_closure applied to every graph parse_manifest      *)
(* returns and every list of roots among its projects.                        *)

InitClosure ==
    /\ man = <<>>
    /\ \E m \in Manifests :
          /\ parse_manifest(m).raised = NoError
          /\ d = parse_manifest(m).d
    /\ projects \in SeqsUpTo(DOMAIN d, MaxRoots)
    /\ result = NoResult
    /\ raised = NoError
    /\ force = FALSE
    /\ dryRun = FALSE
    /\ fs = NoFiles
    /\ pc = "start"
    /\ todo = <<>>
    /\ cur = ""
    /\ pre = NoFiles
    /\ start = NoFiles
    /\ env = <<>>
    /\ last = <<>>

DependencyClosure ==
    /\ pc = "start"
    /\ result' = dependency_closure(d, projects)
    /\ raised' = result'.raised
    /\ pc' = IF result'.raised = NoError THEN "returned" ELSE "raised"
    /\ UNCHANGED <<man, d, projects, force, dryRun, fs, todo, cur, pre, start, env, last>>

NextClosure == DependencyClosure

SpecClosure == InitClosure /\ [][NextClosure]_vars

Position(s, x) == CHOOSE i \in 1..Len(s) : s[i] = x

\* C1: on an acyclic graph dependency_closure returns, without error, the roots
\* and everything reachable from them, each exactly once, every project after
\* all of its own dependencies.
C1_ClosureOfAcyclicGraph ==
    (pc # "start" /\ Acyclic(d)) =>
        /\ pc = "returned"
        /\ result.raised = NoError
        /\ Range(result.order) = ReachFrom(d, Range(projects))
        /\ \A p \in Range(result.order) : Count(result.order, p) = 1
        /\ \A p \in Range(result.order) : \A q \in Declared(d, p) :
               /\ q \in Range(result.order)
               /\ Position(result.order, q) < Position(result.order, p)

\* Two roots, the first depending on the second, and a closure of three projects.
C1_Witness ==
    /\ pc = "returned"
    /\ Acyclic(d)
    /\ Len(projects) = 2
    /\ projects[2] \in Declared(d, projects[1])
    /\ Len(result.order) = 3

\* C2: when a cycle is reachable from the roots, dependency_closure raises an
\* error and returns no order, and the two projects the error names reach one
\* another along deps edges.
C2_CycleRaises ==
    (pc # "start" /\ CycleReachable(d, projects)) =>
        /\ pc = "raised"
        /\ result.raised.kind = "cycle"
        /\ result.order = <<>>
        /\ Reaches(d, result.raised.proj, result.raised.arg)
        /\ Reaches(d, result.raised.arg, result.raised.proj)

\* A cycle through two different projects, entered from a root outside it.
C2_Witness ==
    /\ pc = "raised"
    /\ result.raised.kind = "cycle"
    /\ result.raised.proj # result.raised.arg
    /\ Len(projects) > 0
    /\ ~Reaches(d, projects[1], projects[1])

----------------------------------------------------------------------------
(* SpecConfig: calls of update_config, one file operation at a time, each     *)
(* call running to its end or cut short by a crash or a power loss; a later   *)
(* command then finds the files as the crash left them. last is the config    *)
(* of the latest call whose rename took place, at first the config the        *)
(* workspace was created with.                                                *)

InitConfig ==
    /\ man = <<>>
    /\ d = <<>>
    /\ projects = <<>>
    /\ result = NoResult
    /\ raised = NoError
    /\ force = FALSE
    /\ dryRun = FALSE
    /\ \E c \in Configs : /\ fs = [NoFiles EXCEPT !.config = yaml_dump(c)]
                          /\ cur = c
                          /\ last = c
    /\ pc = "idle"
    /\ todo = <<>>
    /\ pre = fs
    /\ start = fs
    /\ env = <<>>

\* update_config(ws, config) is called.
UpdateConfigCall ==
    /\ pc = "idle"
    /\ \E c \in Configs : cur' = c
    /\ pre' = fs
    /\ pc' = "open"
    /\ UNCHANGED <<man, d, projects, result, raised, force, dryRun, fs, todo, start,
                   env, last>>

\* conf.py 184
UpdateOpen ==
    /\ pc = "open"
    /\ fs' = OpenTmp(fs)
    /\ todo' = yaml_dump(cur)
    /\ pc' = "write"
    /\ UNCHANGED <<man, d, projects, result, raised, force, dryRun, cur, pre, start,
                   env, last>>

\* conf.py 185: one more token of the dump reaches the file.
UpdateWrite ==
    /\ pc = "write"
    /\ fs' = WriteTmp(fs, <<Head(todo)>>)
    /\ todo' = Tail(todo)
    /\ pc' = IF Len(todo) = 1 THEN "sync" ELSE "write"
    /\ UNCHANGED <<man, d, projects, result, raised, force, dryRun, cur, pre, start,
                   env, last>>

\* conf.py 186-187: f.flush(), os.fdatasync(f), and the file is closed.
UpdateSync ==
    /\ pc = "sync"
    /\ pc' = "rename"
    /\ UNCHANGED <<man, d, projects, result, raised, force, dryRun, fs, todo, cur, pre,
                   start, env, last>>

\* conf.py 188
UpdateRename ==
    /\ pc = "rename"
    /\ fs' = RenameTmp(fs)
    /\ last' = cur
    /\ pc' = "idle"
    /\ UNCHANGED <<man, d, projects, result, raised, force, dryRun, todo, cur, pre,
                   start, env>>

\* The process dies or the power fails. What was written and not yet synced
\* may be lost from its end on.
UpdateCrash ==
    /\ pc \in {"open", "write", "sync", "rename"}
    /\ IF pc \in {"write", "sync"}
       THEN \E n \in 0..Len(fs[tmpfile]) :
                fs' = [fs EXCEPT ![tmpfile] = Prefix(@, n)]
       ELSE fs' = fs
    /\ todo' = <<>>
    /\ pc' = "crashed"
    /\ UNCHANGED <<man, d, projects, result, raised, force, dryRun, cur, pre, start,
                   env, last>>

\* A later command runs in the workspace the crash left.
UpdateRestart ==
    /\ pc = "crashed"
    /\ pc' = "idle"
    /\ UNCHANGED <<man, d, projects, result, raised, force, dryRun, fs, todo, cur, pre,
                   start, env, last>>

NextConfig ==
    \/ UpdateConfigCall
    \/ UpdateOpen
    \/ UpdateWrite
    \/ UpdateSync
    \/ UpdateRename
    \/ UpdateCrash
    \/ UpdateRestart

SpecConfig == InitConfig /\ [][NextConfig]_vars

\* C3: at every point of update_config(ws, config), a crash included, the live
\* config file holds the complete content it had when the call began or the
\* complete dump of the new config, never a partial or empty text.
C3_LiveConfigOldOrNew ==
    /\ fs.config = pre.config \/ fs.config = yaml_dump(cur)
    /\ CompleteConfig(fs.config)

\* A crash in the middle of the write: the temp file holds a partial dump of a
\* config that differs from the live one.
C3_Witness ==
    /\ pc = "crashed"
    /\ fs.tmp # NoFile
    /\ Len(fs.tmp) \in 1..3
    /\ yaml_dump(cur) # pre.config
    /\ fs.config = pre.config

\* C20: after any sequence of update_config calls, each run to its end or cut
\* short by a crash at any step, config.yaml is the dump of the config of the
\* latest call whose rename took place (of the first config if there was
\* none), and get_ws_config returns that config: what a crashed call left in
\* config.yaml.tmp is in no later result.
C20_ConfigIsLatestRenamed ==
    /\ fs.config = yaml_dump(last)
    /\ get_ws_config(fs) = last

\* A call that found the part of another config's dump a crashed call had left
\* in the temp file, and has replaced the live config by its rename.
C20_Witness ==
    /\ pc = "idle"
    /\ pre.tmp # NoFile
    /\ Len(pre.tmp) \in 1..3
    /\ ~IsPrefix(pre.tmp, yaml_dump(cur))
    /\ fs.tmp = NoFile
    /\ last = cur
    /\ yaml_dump(cur) # pre.config
    /\ get_ws_config(fs) = cur

----------------------------------------------------------------------------
(* Spec: one run of the clean sub-command (clean.py handler), one call or     *)
(* file-system operation at a time, over a manifest, a list of requested      *)
(* projects, the force flag, the dry-run mode and the files of the workspace. *)

\* The manifests of the runs: every entry names at most one project in its
\* deps, possibly more than once.
RunManifests ==
    {m \in Manifests :
        \A p \in DOMAIN m : /\ m[p].deps.kind = "list"
                            /\ Cardinality(Range(m[p].deps.val)) <= 1}

\* A workspace in which the projects of built have been built (build directory
\* and stored checksum) and the others never.
Workspace(built, config) ==
    [checksum |-> [p \in NameSet |->
                      IF p \in built THEN ChecksumText(<<"a", "1">>) ELSE NoFile],
     build    |-> [p \in NameSet |-> IF p \in built THEN "built" ELSE "absent"],
     config   |-> yaml_dump(config),
     tmp      |-> NoFile]

Workspaces == {Workspace(built, c) : built \in SUBSET NameSet, c \in Configs}

\* clean.py 106-108: the first requested project that is not in the manifest.
RECURSIVE UnknownProject(_, _, _)
UnknownProject(g, args, i) ==
    IF i > Len(args) THEN NoError
    ELSE IF args[i] \notin DOMAIN g THEN Err("unknown_project", args[i], "")
    ELSE UnknownProject(g, args, i + 1)

\* clean.py 105-108: "Validate"; the dictionary and the error raised, if any.
Validate(m, args) ==
    LET r == parse_manifest(m) IN
    IF r.raised # NoError THEN r
    ELSE [d |-> r.d, raised |-> UnknownProject(r.d, args, 1)]

\* clean.py 110-113: the projects to clean.
\* A choice that takes the projects of the manifest from the last to the first.
ProjectsToCleanMutant(g, args) ==
    IF Len(args) = 0 THEN [i \in 1..Len(Keys(g)) |-> Keys(g)[Len(Keys(g)) + 1 - i]]
    ELSE args

ProjectsToClean(g, args) == IF Len(args) = 0 THEN Keys(g) ELSE args

Init ==
    /\ man \in RunManifests
    /\ d = <<>>
    /\ projects \in SeqsUpTo(NameSet, MaxArgs)
    /\ result = NoResult
    /\ raised = NoError
    /\ force \in BOOLEAN
    /\ dryRun \in BOOLEAN
    \* a run that fails validation ends before any file is looked at
    /\ fs \in IF Validate(man, projects).raised = NoError
              THEN Workspaces
              ELSE {Workspace(NameSet, [taint |-> TRUE, type |-> "release"])}
    /\ pc = "start"
    /\ todo = <<>>
    /\ cur = ""
    /\ pre = fs
    /\ start = fs
    /\ env = <<>>
    /\ last = <<>>

\* clean.py 105-113
HandlerValidate ==
    /\ pc = "start"
    /\ \E r \in {Validate(man, projects)} :
          /\ d' = r.d
          /\ raised' = r.raised
          /\ todo' = IF r.raised = NoError THEN ProjectsToClean(r.d, projects) ELSE <<>>
          /\ pc' = IF r.raised # NoError THEN "raised"
                   ELSE IF Len(todo') = 0 THEN "done" ELSE "clean"
          /\ cur' = IF Len(todo') > 0 THEN Head(todo') ELSE cur
    /\ UNCHANGED <<man, projects, result, force, dryRun, fs, pre, start, env, last>>

\* clean.py 94: clean(ws, cur, force, d) begins with invalidate_checksum.
CleanInvalidate ==
    /\ pc = "clean"
    /\ pre' = fs
    /\ \E fault \in Faults :
          \E r \in {invalidate_checksum(fs, dryRun, cur, fault)} :
          /\ fs' = r.fs
          /\ raised' = r.raised
          /\ pc' = IF r.raised # NoError THEN "raised"
                   ELSE IF force THEN "rmtree" ELSE "polite"
    /\ UNCHANGED <<man, d, projects, result, force, dryRun, todo, cur, start, env, last>>

\* clean.py 63-73: force_clean up to the removal of the build tree.
ForceRmtree ==
    /\ pc = "rmtree"
    /\ IF dryRun
       THEN /\ pc' = "cleaned"
            /\ UNCHANGED <<fs, raised>>
       ELSE \E fault \in Faults :
               \E r \in {rmtree(fs, cur, fault)} :
               /\ fs' = r.fs
               /\ raised' = r.raised
               /\ pc' = IF r.raised # NoError THEN "raised" ELSE "taint"
    /\ UNCHANGED <<man, d, projects, result, force, dryRun, todo, cur, pre, start, env,
                   last>>

\* clean.py 75-77: the rest of force_clean.
ForceResetTaint ==
    /\ pc = "taint"
    /\ fs' = ResetTaint(fs)
    /\ pc' = "cleaned"
    /\ UNCHANGED <<man, d, projects, result, raised, force, dryRun, todo, cur, pre,
                   start, env, last>>

\* clean.py 99: polite_clean(ws, cur, d).
PoliteClean ==
    /\ pc = "polite"
    /\ \E fault \in Faults :
          \E r \in {polite_clean(fs, dryRun, cur, d, fault)} :
          /\ fs' = r.fs
          /\ raised' = r.raised
          /\ pc' = IF r.raised # NoError THEN "raised" ELSE "cleaned"
    /\ UNCHANGED <<man, d, projects, result, force, dryRun, todo, cur, pre, start, env,
                   last>>

\* clean.py 115: clean returned; the loop goes on to the next project.
NextProject ==
    /\ pc = "cleaned"
    /\ todo' = Tail(todo)
    /\ pc' = IF Len(todo) = 1 THEN "done" ELSE "clean"
    /\ cur' = IF Len(todo) = 1 THEN cur ELSE todo[2]
    /\ UNCHANGED <<man, d, projects, result, raised, force, dryRun, fs, pre, start,
                   env, last>>

Next ==
    \/ HandlerValidate
    \/ CleanInvalidate
    \/ ForceRmtree
    \/ ForceResetTaint
    \/ PoliteClean
    \/ NextProject

Spec == Init /\ [][Next]_vars

\* The kinds of the validation errors of a clean run.
ValidationErrors ==
    ManifestErrors \cup {"unknown_project", "cycle", "unknown_build"}

\* q depends on p, directly or through other projects
DependsOn(g, q, p) == q \in DOMAIN g /\ q # p /\ Reaches(g, q, p)

\* C4 as stated: after clean(ws, P, force, d) completes outside dry-run, no
\* stored fingerprint exists for P nor for any project that transitively
\* depends on P.
C4_DependentsInvalidated ==
    (pc = "cleaned" /\ ~dryRun) =>
        \A q \in DOMAIN d :
            (q = cur \/ DependsOn(d, q, cur)) => fs.checksum[q] = NoFile

\* C4 amended: after clean(ws, P, force, d) completes outside dry-run, no
\* stored fingerprint exists for P; the stored fingerprint of every other
\* project, those that depend on P included, is as it was before the clean.
C4_OnlyOwnFingerprintRemoved ==
    (pc = "cleaned" /\ ~dryRun) =>
        /\ fs.checksum[cur] = NoFile
        /\ \A q \in NameSet \ {cur} : fs.checksum[q] = pre.checksum[q]

\* A clean of a project that had a stored fingerprint, with a dependent whose
\* fingerprint is still stored afterwards.
C4_Witness ==
    /\ pc = "cleaned"
    /\ ~dryRun
    /\ pre.checksum[cur] # NoFile
    /\ \E q \in DOMAIN d : DependsOn(d, q, cur) /\ fs.checksum[q] # NoFile

\* C5 as stated: after any clean of a project completes outside dry-run,
\* forced or polite, the 'taint' flag of the workspace config is false.
C5_AnyCleanResetsTaint ==
    (pc = "cleaned" /\ ~dryRun) => ~get_ws_config(fs).taint

\* C5 amended: after a forced clean of a project completes outside dry-run the
\* 'taint' flag is false; a polite clean leaves the config file as it was.
C5_ForceCleanResetsTaint ==
    (pc = "cleaned" /\ ~dryRun) =>
        /\ force => ~get_ws_config(fs).taint
        /\ ~force => fs.config = pre.config

\* A forced clean that found the flag set and left it reset.
C5_Witness ==
    /\ pc = "cleaned"
    /\ ~dryRun
    /\ force
    /\ get_ws_config(pre).taint
    /\ ~get_ws_config(fs).taint

\* C7: in a clean run, a validation error, if one is raised at all, is raised
\* before any stored fingerprint, build directory or the config is modified.
C7_ValidationBeforeAnyChange ==
    (pc = "raised" /\ raised.kind \in ValidationErrors) => fs = start

\* C8: a forced clean of P outside dry-run removes P's build directory and P's
\* stored fingerprint and sets 'taint' to false; the build directory and the
\* stored fingerprint of every other project and every other config key are
\* unchanged.
C8_ForceCleanFrame ==
    (pc = "cleaned" /\ force /\ ~dryRun) =>
        /\ fs.build[cur] = "absent"
        /\ fs.checksum[cur] = NoFile
        /\ ~get_ws_config(fs).taint
        /\ CompleteConfig(fs.config)
        /\ get_ws_config(fs).type = get_ws_config(pre).type
        /\ \A q \in NameSet \ {cur} : /\ fs.build[q] = pre.build[q]
                                      /\ fs.checksum[q] = pre.checksum[q]

\* A forced clean of a built project that has a built dependency and a built
\* dependent, in a tainted workspace of type release.
C8_Witness ==
    /\ pc = "cleaned"
    /\ force
    /\ ~dryRun
    /\ pre.build[cur] = "built"
    /\ pre.checksum[cur] # NoFile
    /\ get_ws_config(pre) = [taint |-> TRUE, type |-> "release"]
    /\ \E q \in DOMAIN d : /\ DependsOn(d, q, cur)
                           /\ fs.build[q] = "built" /\ fs.checksum[q] # NoFile
    /\ \E q \in DOMAIN d : /\ DependsOn(d, cur, q)
                           /\ fs.build[q] = "built" /\ fs.checksum[q] # NoFile

\* C15: a polite clean of a project whose build directory does not exist is a
\* no-op and no error, whatever the backend tag of the project: polite_clean
\* raises nothing, runs no backend clean and leaves the build directories alone.
C15_PoliteCleanOfAbsentBuildIsNoOp ==
    (~force /\ cur # "" /\ pc \in {"cleaned", "raised"} /\ pre.build[cur] = "absent"
       /\ raised.kind # "OSError") =>
        /\ pc = "cleaned"
        /\ raised = NoError
        /\ fs.build = pre.build

\* C16 as stated: a forced clean of a project whose build tree is absent
\* succeeds and leaves 'taint' false, in every mode; a failed removal of the
\* build tree propagates and leaves the config as it was.
C16_ForceCleanOfAbsentTreeResetsTaint ==
    /\ (force /\ pc = "cleaned" /\ pre.build[cur] = "absent") =>
           (raised = NoError /\ ~get_ws_config(fs).taint)
    /\ (force /\ pc = "raised" /\ cur # "") =>
           (raised.kind = "OSError" /\ fs.config = pre.config)

\* C16 amended: outside dry-run, a forced clean of a project whose build tree is
\* absent succeeds and leaves 'taint' false, the other config keys as they
\* were; under dry-run it succeeds and changes no file. The removal of an
\* absent tree never raises; a removal that fails propagates its error and
\* leaves config.yaml and config.yaml.tmp as they were.
C16_ForceCleanOfAbsentTreeOutsideDryRun ==
    /\ (force /\ pc = "cleaned" /\ pre.build[cur] = "absent") =>
           /\ raised = NoError
           /\ ~dryRun => /\ CompleteConfig(fs.config)
                         /\ ~get_ws_config(fs).taint
                         /\ get_ws_config(fs).type = get_ws_config(pre).type
                         /\ fs.build[cur] = "absent"
           /\ dryRun => fs = pre
    /\ (force /\ pc = "raised" /\ cur # "") =>
           /\ raised.kind = "OSError"
           /\ raised.arg # "ENOENT"
           /\ fs.config = pre.config
           /\ fs.tmp = pre.tmp
           \* the error is of the removal of a checksum file or of a tree that exists
           /\ fs.checksum[cur] # NoFile \/ pre.build[cur] # "absent"

\* A forced clean, outside dry-run, of a project that has no build tree, in a
\* tainted workspace in which another project is built.
C16_Witness ==
    /\ pc = "cleaned"
    /\ force
    /\ ~dryRun
    /\ pre.build[cur] = "absent"
    /\ \E q \in NameSet : fs.build[q] = "built"
    /\ get_ws_config(pre).taint
    /\ ~get_ws_config(fs).taint

\* The list the run cleans, as the command line and the manifest give it.
RunList == IF Len(projects) = 0 THEN Keys(d) ELSE projects

\* The place in RunList of the project the run is at.
RunIndex == Len(RunList) - Len(todo) + 1

\* C17: a clean run takes the projects one at a time in list order; at every
\* point of the run, and when cleaning a project has raised an error and ended
\* the run, every project that comes only later in the list has its stored
\* fingerprint and build directory as before the run, and the projects cleaned
\* earlier stay cleaned (under dry-run: stay as their clean left them, as
\* before the run).
C17_CleanInListOrderStopsAtFailure ==
    (cur # "" /\ pc \in {"clean", "rmtree", "taint", "polite", "cleaned", "raised"}) =>
        /\ RunIndex \in 1..Len(RunList)
        /\ cur = RunList[RunIndex]
        /\ todo = SubSeq(RunList, RunIndex, Len(RunList))
        /\ pc = "raised" => raised # NoError
        /\ \A i \in (RunIndex + 1)..Len(RunList) :
               RunList[i] \notin {RunList[j] : j \in 1..RunIndex} =>
                   /\ fs.checksum[RunList[i]] = start.checksum[RunList[i]]
                   /\ fs.build[RunList[i]] = start.build[RunList[i]]
        /\ ~dryRun =>
               \A j \in 1..(RunIndex - 1) :
                   /\ fs.checksum[RunList[j]] = NoFile
                   /\ fs.build[RunList[j]] # "built"
                   /\ force => fs.build[RunList[j]] = "absent"
        /\ dryRun =>
               \A j \in 1..(RunIndex - 1) :
                   /\ fs.checksum[RunList[j]] = start.checksum[RunList[j]]
                   /\ fs.build[RunList[j]] = start.build[RunList[j]]

\* A run over three projects that ends with an error at the second: the first
\* is cleaned, the third has its build directory and stored fingerprint.
C17_Witness ==
    /\ pc = "raised"
    /\ ~dryRun
    /\ Len(RunList) = 3
    /\ RunIndex = 2
    /\ start.checksum[RunList[1]] # NoFile
    /\ start.build[RunList[1]] = "built"
    /\ fs.checksum[RunList[1]] = NoFile
    /\ fs.build[RunList[1]] # "built"
    /\ fs.checksum[RunList[3]] # NoFile
    /\ fs.build[RunList[3]] = "built"

\* C19: outside dry-run, a clean removes the project's stored fingerprint
\* before it removes the build directory or runs the backend clean: in every
\* state of a run, a project whose build directory the run has changed, or
\* whose backend clean the run has started, has no stored fingerprint.
C19_FingerprintGoesFirst ==
    ~dryRun =>
        /\ pc \in {"rmtree", "taint", "polite"} => fs.checksum[cur] = NoFile
        /\ \A q \in NameSet :
               (\/ fs.build[q] # start.build[q]
                \/ (pc = "raised" /\ raised.kind = "backend" /\ raised.proj = q))
                   => fs.checksum[q] = NoFile

\* A backend clean that failed on a project that had a stored fingerprint.
C19_Witness ==
    /\ pc = "raised"
    /\ ~dryRun
    /\ raised.kind = "backend"
    /\ start.checksum[cur] # NoFile
    /\ fs.checksum[cur] = NoFile
    /\ fs.build[cur] = "built"

----------------------------------------------------------------------------
(* SpecStore: the operations on the workspace files, each call running to     *)
(* its end, in any order, in or outside dry-run mode.                         *)

\* The manifest of the workspace: A, B that depends on A, and C whose build
\* tool is unknown.
StoreManifest ==
    [p \in NameSet |->
        IF p = "C"
        THEN [keys |-> {"build"}, build |-> "bogus",
              deps |-> [kind |-> "list", val |-> <<>>], env |-> "dict"]
        ELSE [keys |-> {"build", "deps"}, build |-> "cmake",
              deps |-> [kind |-> "list",
                        val |-> IF p = "B" THEN <<"A">> ELSE <<>>],
              env |-> "dict"]]

InitStore ==
    /\ man = StoreManifest
    /\ d = parse_manifest(man).d
    /\ projects = <<>>
    /\ result = NoResult
    /\ raised = NoError
    /\ force = FALSE
    /\ dryRun \in BOOLEAN
    /\ fs \in Workspaces
    /\ pc = "idle"
    /\ todo = <<>>
    /\ cur = ""
    /\ pre = fs
    /\ start = fs
    /\ env = <<>>
    /\ last = <<>>

StoreInvalidate ==
    /\ \E p \in NameSet, fault \in Faults :
          \E r \in {invalidate_checksum(fs, dryRun, p, fault)} :
              /\ fs' = r.fs
              /\ raised' = r.raised
    /\ UNCHANGED <<man, d, projects, result, force, dryRun, pc, todo, cur, pre, start,
                   env, last>>

StoreSetChecksum ==
    /\ \E p \in NameSet, c \in Checksums :
          fs' = set_stored_checksum(fs, dryRun, p, c)
    /\ raised' = NoError
    /\ UNCHANGED <<man, d, projects, result, force, dryRun, pc, todo, cur, pre, start,
                   env, last>>

StoreUpdateConfig ==
    /\ \E c \in Configs : fs' = update_config(fs, c)
    /\ raised' = NoError
    /\ UNCHANGED <<man, d, projects, result, force, dryRun, pc, todo, cur, pre, start,
                   env, last>>

StoreForceClean ==
    /\ \E p \in NameSet, fault \in Faults :
          \E r \in {force_clean(fs, dryRun, p, fault)} :
              /\ fs' = r.fs
              /\ raised' = r.raised
    /\ UNCHANGED <<man, d, projects, result, force, dryRun, pc, todo, cur, pre, start,
                   env, last>>

StoreClean ==
    /\ \E p \in NameSet, frc \in BOOLEAN, fault \in Faults :
          \E r \in {clean(fs, dryRun, p, frc, d, "ok", fault),
                    clean(fs, dryRun, p, frc, d, fault, "ok")} :
              /\ fs' = r.fs
              /\ raised' = r.raised
    /\ UNCHANGED <<man, d, projects, result, force, dryRun, pc, todo, cur, pre, start,
                   env, last>>

NextStore ==
    \/ StoreInvalidate
    \/ StoreSetChecksum
    \/ StoreUpdateConfig
    \/ StoreForceClean
    \/ StoreClean

SpecStore == InitStore /\ [][NextStore]_vars

\* C6: while dry-run mode is active, no operation of the core creates, changes
\* or deletes a file: the files after the call are the files before it.
C6_DryRunTouchesNothing ==
    [][dryRun => fs' = fs]_vars

----------------------------------------------------------------------------
(* SpecChecksum: calls of set_stored_checksum, one file operation at a time   *)
(* and possibly cut short by a crash, and calls of invalidate_checksum, in    *)
(* any order on any projects. last[p] is what the calls that returned say     *)
(* about p: the checksum of the latest set_stored_checksum(p), or None once   *)
(* an invalidate_checksum(p) followed it.                                     *)

Call(op, proj, checksum, fault, again) ==
    [op |-> op, proj |-> proj, checksum |-> checksum, fault |-> fault, again |-> again]

InitChecksum ==
    /\ man = <<>>
    /\ d = <<>>
    /\ projects = <<>>
    /\ result = NoResult
    /\ raised = NoError
    /\ force = FALSE
    /\ dryRun \in BOOLEAN
    /\ fs = NoFiles
    /\ pc = "idle"
    /\ todo = <<>>
    /\ cur = Call("none", "", <<>>, "ok", FALSE)
    /\ pre = fs
    /\ start = fs
    /\ env = <<>>
    /\ last = [p \in NameSet |-> None]

\* set_stored_checksum(ws, proj, checksum) is called with a calculated checksum.
SetChecksumCall ==
    /\ pc = "idle"
    /\ \E p \in NameSet, c \in calculate_checksum(dryRun) :
          cur' = Call("set", p, c, "ok", FALSE)
    /\ pre' = fs
    /\ raised' = NoError
    /\ pc' = "open"
    /\ UNCHANGED <<man, d, projects, result, force, dryRun, fs, todo, start, env, last>>

\* conf.py 283
SetChecksumOpen ==
    /\ pc = "open"
    /\ fs' = OpenChecksum(fs, cur.proj)
    /\ todo' = ChecksumText(cur.checksum)
    /\ pc' = "write"
    /\ UNCHANGED <<man, d, projects, result, raised, force, dryRun, cur, pre, start,
                   env, last>>

\* conf.py 284: one more token of the text reaches the file.
SetChecksumWrite ==
    /\ pc = "write"
    /\ fs' = WriteChecksum(fs, cur.proj, <<Head(todo)>>)
    /\ todo' = Tail(todo)
    /\ pc' = IF Len(todo) = 1 THEN "close" ELSE "write"
    /\ UNCHANGED <<man, d, projects, result, raised, force, dryRun, cur, pre, start,
                   env, last>>

\* conf.py 283-284: the with block ends, the call returns.
SetChecksumClose ==
    /\ pc = "close"
    /\ last' = [last EXCEPT ![cur.proj] = cur.checksum]
    /\ pc' = "idle"
    /\ UNCHANGED <<man, d, projects, result, raised, force, dryRun, fs, todo, cur, pre,
                   start, env>>

\* The process dies or the power fails during the write of set_stored_checksum,
\* once the file is open. The file is never synced: what was written may be
\* lost from its end on.
SetChecksumCrash ==
    /\ pc \in {"write", "close"}
    /\ \E n \in 0..Len(fs.checksum[cur.proj]) :
          fs' = [fs EXCEPT !.checksum[cur.proj] = Prefix(@, n)]
    /\ todo' = <<>>
    /\ pc' = "crashed"
    /\ UNCHANGED <<man, d, projects, result, raised, force, dryRun, cur, pre, start,
                   env, last>>

\* invalidate_checksum(ws, proj) is called and returns or raises.
InvalidateCall ==
    /\ pc = "idle"
    /\ \E p \in NameSet, fault \in Faults :
          \E r \in {invalidate_checksum(fs, dryRun, p, fault)} :
              /\ fs' = r.fs
              /\ raised' = r.raised
              /\ cur' = Call("invalidate", p, <<>>, fault,
                             cur.op = "invalidate" /\ cur.proj = p /\ raised = NoError)
              /\ last' = IF r.raised = NoError THEN [last EXCEPT ![p] = None] ELSE last
    /\ pre' = fs
    /\ UNCHANGED <<man, d, projects, result, force, dryRun, pc, todo, start, env>>

NextChecksum ==
    \/ SetChecksumCall
    \/ SetChecksumOpen
    \/ SetChecksumWrite
    \/ SetChecksumClose
    \/ SetChecksumCrash
    \/ InvalidateCall

SpecChecksum == InitChecksum /\ [][NextChecksum]_vars

\* Every value calculate_checksum can return.
FreshChecksums == calculate_checksum(TRUE) \cup calculate_checksum(FALSE)

\* C11: when set_stored_checksum(ws, P, c) is cut short by a crash, after the
\* truncation or after any part of the text is written, get_stored_checksum(ws, P)
\* returns c itself or a value that is no complete calculated checksum.
C11_TornChecksumNeverFresh ==
    pc = "crashed" =>
        \/ get_stored_checksum(fs, dryRun, cur.proj) = cur.checksum
        \/ get_stored_checksum(fs, dryRun, cur.proj) \notin FreshChecksums

\* A crash in the middle of the write, over a file that held the complete
\* checksum of an earlier build: the file holds a part of the new checksum.
C11_Witness ==
    /\ pc = "crashed"
    /\ ~dryRun
    /\ pre.checksum[cur.proj] # NoFile
    /\ rstrip(pre.checksum[cur.proj]) \in HexDigests \ {cur.checksum}
    /\ Len(fs.checksum[cur.proj]) \in 1..(DigestLen - 1)

\* C12: outside dry-run, after any sequence of set_stored_checksum and
\* invalidate_checksum calls, get_stored_checksum(ws, P) returns the checksum of
\* the latest set_stored_checksum for P unless an invalidate_checksum for P
\* followed it, and None then; calls for one project change nothing for another.
C12_StoredChecksumIsLatestSet ==
    (pc = "idle" /\ ~dryRun) =>
        \A p \in NameSet : get_stored_checksum(fs, dryRun, p) = last[p]

\* An invalidation of a project that had a checksum stored, while two other
\* projects keep the different checksums stored for them.
C12_Witness ==
    /\ pc = "idle"
    /\ ~dryRun
    /\ cur.op = "invalidate"
    /\ raised = NoError
    /\ pre.checksum[cur.proj] # NoFile
    /\ get_stored_checksum(fs, dryRun, cur.proj) = None
    /\ \E p, q \in NameSet \ {cur.proj} :
          /\ last[p] \in HexDigests
          /\ last[q] \in HexDigests
          /\ last[p] # last[q]

\* C13: invalidate_checksum on a project without a stored checksum, or a second
\* time in a row on the same project, raises nothing and leaves every file as
\* it was; a call that returns leaves (outside dry-run) no checksum for the
\* project and every other file as it was; the only error is a failed deletion
\* of an existing file, which leaves every file as it was.
C13_InvalidateIdempotent ==
    (pc = "idle" /\ cur.op = "invalidate") =>
        /\ (pre.checksum[cur.proj] = NoFile \/ cur.again) =>
               (raised = NoError /\ fs = pre)
        /\ (raised = NoError /\ ~dryRun) => fs.checksum[cur.proj] = NoFile
        /\ \A q \in NameSet \ {cur.proj} : fs.checksum[q] = pre.checksum[q]
        /\ fs.build = pre.build /\ fs.config = pre.config /\ fs.tmp = pre.tmp
        /\ raised # NoError =>
               /\ raised = Err("OSError", cur.proj, cur.fault)
               /\ cur.fault # "ok"
               /\ pre.checksum[cur.proj] # NoFile
               /\ fs = pre

\* A second invalidation in a row of the same project, on a file system that
\* refuses deletions, while another project has a checksum stored.
C13_Witness ==
    /\ pc = "idle"
    /\ ~dryRun
    /\ cur.op = "invalidate"
    /\ cur.again
    /\ cur.fault = "EACCES"
    /\ raised = NoError
    /\ \E q \in NameSet \ {cur.proj} : fs.checksum[q] # NoFile

----------------------------------------------------------------------------
(* SpecEnv: calls of merge_var, one after another on the same environment, as *)
(* get_build_env makes them (conf.py 434-451). start is the environment the   *)
(* calls began with, pre the environment the latest call found.               *)

\* The path entries a call merges: the empty string, a directory, and a value
\* that holds a colon itself.
Entries == {<<>>, <<"a">>, <<"a", ":">>}

\* The values of a variable of the inherited environment.
Inherited == {Unset, <<>>, <<"a">>, <<":">>}

InitEnv ==
    /\ man = <<>>
    /\ d = <<>>
    /\ projects = <<>>
    /\ result = NoResult
    /\ raised = NoError
    /\ force = FALSE
    /\ dryRun = FALSE
    /\ fs = NoFiles
    /\ pc = "idle"
    /\ todo = <<>>
    /\ cur = [var |-> "", val |-> <<>>]
    /\ env \in [VarNames -> Inherited]
    /\ pre = env
    /\ start = env
    /\ last = <<>>

\* merge_var(build_env, var, val)
MergeVar ==
    /\ \E var \in VarNames, val \in SeqsUpTo(Entries, MaxVals) :
          \E e \in {merge_var(env, var, val)} :
              /\ Len(e[var]) <= MaxEnvLen
              /\ env' = e
              /\ cur' = [var |-> var, val |-> val]
    /\ pre' = env
    /\ UNCHANGED <<man, d, projects, result, raised, force, dryRun, fs, pc, todo, start,
                   last>>

NextEnv == MergeVar

SpecEnv == InitEnv /\ [][NextEnv]_vars

\* The entries of val, each after a colon.
RECURSIVE ColonEach(_)
ColonEach(val) ==
    IF Len(val) = 0 THEN <<>> ELSE <<":">> \o Head(val) \o ColonEach(Tail(val))

\* C14: merge_var(env, var, val) leaves in env[var] the value var had, if it
\* was set, followed by the entries of val in their order, each after a colon
\* (without the first colon if var was not set), and changes no other variable;
\* read back entry by entry, the value holds the entries it held followed by
\* those of val, none removed, folded with an equal one or moved; over repeated
\* calls every earlier value of a variable is the beginning of every later one.
C14_MergeKeepsPriorEntriesFirst ==
    cur.var # "" =>
        /\ \A v \in VarNames \ {cur.var} : env[v] = pre[v]
        /\ pre[cur.var] # Unset => env[cur.var] = pre[cur.var] \o ColonEach(cur.val)
        /\ (pre[cur.var] = Unset /\ Len(cur.val) > 0) =>
               env[cur.var] = Head(cur.val) \o ColonEach(Tail(cur.val))
        /\ (pre[cur.var] = Unset /\ Len(cur.val) = 0) => env[cur.var] = <<>>
        /\ (pre[cur.var] # Unset /\ \A i \in 1..Len(cur.val) : ":" \notin Range(cur.val[i])) =>
               split(env[cur.var]) = split(pre[cur.var]) \o cur.val
        /\ (pre[cur.var] = Unset /\ Len(cur.val) > 0
              /\ \A i \in 1..Len(cur.val) : ":" \notin Range(cur.val[i])) =>
               split(env[cur.var]) = cur.val
        /\ \A v \in VarNames :
               /\ pre[v] # Unset => (env[v] # Unset /\ IsPrefix(pre[v], env[v]))
               /\ start[v] # Unset => (env[v] # Unset /\ IsPrefix(start[v], env[v]))

\* An entry merged into a variable that already held an equal entry and had
\* grown from an earlier value, the other variable being set.
C14_Witness ==
    /\ cur.var # ""
    /\ cur.val = << <<"a">> >>
    /\ pre[cur.var] # Unset
    /\ <<"a">> \in Range(split(pre[cur.var]))
    /\ start[cur.var] # Unset
    /\ start[cur.var] # pre[cur.var]
    /\ \E v \in VarNames \ {cur.var} : env[v] # Unset /\ Len(env[v]) > 0

----------------------------------------------------------------------------
(* SpecConcurrent: two force_clean calls (clean.py 60-77) on two different    *)
(* projects of one workspace, run by two processes outside dry-run and        *)
(* interleaved one file operation at a time. Here a file name refers to an    *)
(* inode and a process writes through the descriptor it opened: fs.config and *)
(* fs.tmp are the inodes config.yaml and config.yaml.tmp name, fs.data the    *)
(* text of every inode; pc[p] is where process p is, cur[p] the config it     *)
(* read and the inode its descriptor is open on.                              *)

Procs == {"p1", "p2"}

\* The project each process force-cleans.
ProjOf(p) == IF p = "p1" THEN "A" ELSE "B"

\* The inodes: the one config.yaml names at first, and the one each process
\* creates if it finds no config.yaml.tmp.
Inodes == {"init"} \cup Procs
NoInode == "none"

ConcurrentFiles(config) ==
    [build  |-> [q \in NameSet |-> "built"],
     config |-> "init",
     tmp    |-> NoInode,
     data   |-> [i \in Inodes |-> IF i = "init" THEN yaml_dump(config) ELSE <<>>]]

\* The text of the live config file.
LiveConfig == fs.data[fs.config]

InitConcurrent ==
    /\ man = <<>>
    /\ d = <<>>
    /\ projects = <<>>
    /\ result = NoResult
    /\ raised = NoError
    /\ force = TRUE
    /\ dryRun = FALSE
    /\ fs \in {ConcurrentFiles(c) : c \in Configs}
    /\ pc = [p \in Procs |-> "rmtree"]
    /\ todo = <<>>
    /\ cur = [p \in Procs |-> [config |-> <<>>, fd |-> NoInode]]
    /\ pre = fs
    /\ start = fs
    /\ env = <<>>
    /\ last = <<>>

\* clean.py 67-73: shutil.rmtree of the process's own build tree.
ConcRmtree(p) ==
    /\ pc[p] = "rmtree"
    /\ fs' = [fs EXCEPT !.build[ProjOf(p)] = "absent"]
    /\ pc' = [pc EXCEPT ![p] = "read"]
    /\ UNCHANGED <<man, d, projects, result, raised, force, dryRun, todo, cur, pre,
                   start, env, last>>

\* clean.py 75-76: config = get_ws_config(ws); config['taint'] = False.
\* yaml.load of a file that holds no complete document gives no dictionary,
\* and the assignment raises.
ConcRead(p) ==
    /\ pc[p] = "read"
    /\ IF CompleteConfig(LiveConfig)
       THEN /\ cur' = [cur EXCEPT ![p].config = [yaml_load(LiveConfig) EXCEPT !.taint = FALSE]]
            /\ pc' = [pc EXCEPT ![p] = "open"]
            /\ UNCHANGED raised
       ELSE /\ raised' = Err("TypeError", ProjOf(p), "taint")
            /\ pc' = [pc EXCEPT ![p] = "raised"]
            /\ UNCHANGED cur
    /\ UNCHANGED <<man, d, projects, result, force, dryRun, fs, todo, pre, start, env,
                   last>>

\* conf.py 183-184: open('config.yaml.tmp', 'w') truncates the inode the name
\* refers to, or creates one; the descriptor is at offset 0.
ConcOpen(p) ==
    /\ pc[p] = "open"
    /\ \E i \in {IF fs.tmp = NoInode THEN p ELSE fs.tmp} :
          /\ fs' = [fs EXCEPT !.tmp = i, !.data[i] = <<>>]
          /\ cur' = [cur EXCEPT ![p].fd = i]
    /\ pc' = [pc EXCEPT ![p] = "write"]
    /\ UNCHANGED <<man, d, projects, result, raised, force, dryRun, todo, pre, start,
                   env, last>>

\* A write of text at offset 0 of a file.
WriteAt(old, text) ==
    text \o (IF Len(old) > Len(text) THEN SubSeq(old, Len(text) + 1, Len(old)) ELSE <<>>)

\* conf.py 185-186: yaml.dump and f.flush(): the dump is written through the
\* descriptor, to the inode it is open on.
ConcWrite(p) ==
    /\ pc[p] = "write"
    /\ fs' = [fs EXCEPT !.data[cur[p].fd] = WriteAt(@, yaml_dump(cur[p].config))]
    /\ pc' = [pc EXCEPT ![p] = "sync"]
    /\ UNCHANGED <<man, d, projects, result, raised, force, dryRun, todo, cur, pre,
                   start, env, last>>

\* conf.py 187: os.fdatasync(f), and the file is closed.
ConcSync(p) ==
    /\ pc[p] = "sync"
    /\ pc' = [pc EXCEPT ![p] = "rename"]
    /\ UNCHANGED <<man, d, projects, result, raised, force, dryRun, fs, todo, cur, pre,
                   start, env, last>>

\* conf.py 188: os.rename(tmpfile, config_path): config.yaml names the inode
\* config.yaml.tmp named; ENOENT if there is no config.yaml.tmp.
ConcRename(p) ==
    /\ pc[p] = "rename"
    /\ IF fs.tmp = NoInode
       THEN /\ raised' = Err("OSError", ProjOf(p), "ENOENT")
            /\ pc' = [pc EXCEPT ![p] = "raised"]
            /\ UNCHANGED fs
       ELSE /\ fs' = [fs EXCEPT !.config = fs.tmp, !.tmp = NoInode]
            /\ pc' = [pc EXCEPT ![p] = "done"]
            /\ UNCHANGED raised
    /\ UNCHANGED <<man, d, projects, result, force, dryRun, todo, cur, pre, start, env,
                   last>>

NextConcurrent ==
    \E p \in Procs :
        \/ ConcRmtree(p)
        \/ ConcRead(p)
        \/ ConcOpen(p)
        \/ ConcWrite(p)
        \/ ConcSync(p)
        \/ ConcRename(p)

SpecConcurrent == InitConcurrent /\ [][NextConcurrent]_vars

\* C21: while two force-cleans of two different projects run concurrently, the
\* live config file holds a complete config at every point, and once both have
\* finished it is complete with 'taint' false.
C21_ConcurrentForceCleansKeepConfigComplete ==
    /\ CompleteConfig(LiveConfig)
    /\ (\A p \in Procs : pc[p] \in {"done", "raised"}) => ~yaml_load(LiveConfig).taint

====
